---- MODULE Spec2Model ----
(***************************************************************************)
(* Model of Set_NOAA_Background_Linux.py: one run downloads the NOAA image *)
(* into the cache file (download_image), pauses, and sets it as the        *)
(* desktop background (set_linux_background, get_desktop_environment,      *)
(* run_command).  The file system, the HTTP server, the environment and    *)
(* the external tools are the nondeterministic environment of the run.     *)
(***************************************************************************)
EXTENDS Integers, Sequences, FiniteSets, TLC

\* ------------------------------------------------------------------ bounds
\* Number of runs of the script in one behaviour.
MaxRuns == 2
\* Longest response body, in chunks delivered by iter_content.
MaxChunks == 2
\* Longest output of `xfconf-query -c xfce4-desktop -l`, in lines.
MaxListing == 2

\* ------------------------------------------------------- python str values
\* A Python str is a TLA+ string; Chars gives its characters, which the
\* substring test (`in`) and str.upper() work on.
Chars(s) ==
    CASE s = "" -> <<>>
      [] s = "X-Cinnamon" -> <<"X", "-", "C", "i", "n", "n", "a", "m", "o", "n">>
      [] s = "mate" -> <<"m", "a", "t", "e">>
      [] s = "XFCE" -> <<"X", "F", "C", "E">>
      [] s = "GNOME" -> <<"G", "N", "O", "M", "E">>
      [] s = "MATE:xfce" -> <<"M", "A", "T", "E", ":", "x", "f", "c", "e">>
      [] s = "CINNAMON" -> <<"C", "I", "N", "N", "A", "M", "O", "N">>
      [] s = "MATE" -> <<"M", "A", "T", "E">>
      [] s = "last-image" -> <<"l", "a", "s", "t", "-", "i", "m", "a", "g", "e">>
      [] s = "image-path" -> <<"i", "m", "a", "g", "e", "-", "p", "a", "t", "h">>
      [] s = "/m0/last-image" ->
            <<"/", "m", "0", "/", "l", "a", "s", "t", "-", "i", "m", "a", "g", "e">>
      [] s = "/m1/last-image" ->
            <<"/", "m", "1", "/", "l", "a", "s", "t", "-", "i", "m", "a", "g", "e">>
      [] s = "/m0/image-path" ->
            <<"/", "m", "0", "/", "i", "m", "a", "g", "e", "-", "p", "a", "t", "h">>
      [] s = "/m0/image-show" ->
            <<"/", "m", "0", "/", "i", "m", "a", "g", "e", "-", "s", "h", "o", "w">>

LowerLetters == <<"a", "c", "e", "f", "i", "m", "n", "o", "t", "x">>
UpperLetters == <<"A", "C", "E", "F", "I", "M", "N", "O", "T", "X">>

\* str.upper() on one character: a lower-case letter becomes its capital,
\* everything else is kept.
UpperChar(c) ==
    IF \E i \in 1..Len(LowerLetters) : LowerLetters[i] = c
    THEN UpperLetters[CHOOSE i \in 1..Len(LowerLetters) : LowerLetters[i] = c]
    ELSE c

\* str.upper()
Upper(cs) == [i \in 1..Len(cs) |-> UpperChar(cs[i])]

\* Python's `needle in hay` for str: needle occurs as a contiguous run.
Contains(hay, needle) ==
    \E i \in 0..(Len(hay) - Len(needle)) :
        \A j \in 1..Len(needle) : hay[i + j] = needle[j]

\* -------------------------------------------------------------- exceptions
\* The exception classes the library calls of the script raise, each with
\* its base class ("" above Exception).
ExcParent(cls) ==
    CASE cls = "HTTPError" -> "RequestException"
      [] cls = "ConnectionError" -> "RequestException"
      [] cls = "ChunkedEncodingError" -> "RequestException"
      [] cls = "RequestException" -> "OSError"
      [] cls = "FileNotFoundError" -> "OSError"
      [] cls = "PermissionError" -> "OSError"
      [] cls = "OSError" -> "Exception"
      [] cls = "CalledProcessError" -> "Exception"
      [] cls = "MemoryError" -> "Exception"
      [] cls = "Exception" -> ""

RECURSIVE IsInstance(_, _)
IsInstance(exc, cls) ==
    IF exc = "" THEN FALSE
    ELSE IF exc = cls THEN TRUE
    ELSE IsInstance(ExcParent(exc), cls)

\* An exception raised in a try block is handled iff one of its except
\* clauses names a class of the exception.
Caught(exc, clauses) == \E i \in 1..Len(clauses) : IsInstance(exc, clauses[i])

\* download_image without its last, catch-all clause
DownloadExcepts_NoCatchAll == <<"RequestException", "OSError">>
\* except clauses of download_image
DownloadExcepts == <<"RequestException", "OSError", "Exception">>
\* except clauses of the XFCE branch of set_linux_background
XfceExcepts == <<"FileNotFoundError", "CalledProcessError", "Exception">>
\* run_command handling only the missing binary
RunCommandExcepts_OnlyNotFound == <<"FileNotFoundError">>
\* except clauses of run_command
RunCommandExcepts == <<"FileNotFoundError", "CalledProcessError", "Exception">>

\* What subprocess.run(..., check=True) can do: return (exit status 0), or
\* raise because the binary is missing, the exit status is not 0, or the
\* command could not be executed for another reason.
RunOutcomes == {"ok", "FileNotFoundError", "CalledProcessError", "PermissionError"}

\* ------------------------------------------------------------ environment
\* Path.home() of the user running the script.
HomeDir == "/home/user"
\* Where ~/.cache points when it is a symbolic link.
CacheLinkTarget == "/mnt/data/cache"
\* Values of XDG_CURRENT_DESKTOP; "unset" is the variable being absent.
XdgValues == {"unset", "", "X-Cinnamon", "mate", "XFCE", "GNOME", "MATE:xfce"}
\* The executables shutil.which is asked for.
SessionBinaries == {"cinnamon", "mate-session", "xfce4-session"}
\* HTTP status codes of the final response.
Statuses == {200, 304, 404, 503}
\* Chunks of a response body.
Chunks == {"A", "B"}
\* Property names xfconf-query can list in channel xfce4-desktop.
PropLines == {"/m0/last-image", "/m1/last-image", "/m0/image-path", "/m0/image-show"}

SeqsUpTo(S, n) == UNION {[1..k -> S] : k \in 0..n}
Bodies == SeqsUpTo(Chunks, MaxChunks)
\* Property names are unique in a channel: a listing has no repeated line.
Listings ==
    {l \in SeqsUpTo(PropLines, MaxListing) :
        \A i, j \in 1..Len(l) : i # j => l[i] # l[j]}

\* ------------------------------------------------------- pure functions
\* IMAGE_PATH = SAVE_DIR / SAVE_FILENAME, as path components.
IMAGE_PATH == <<HomeDir, ".cache", "noaa_wallpaper", "noaa_latest_background.jpg">>

\* Path.resolve(): the path with the symbolic link ~/.cache followed.
Resolve(path, linked) ==
    IF linked /\ Len(path) >= 2 /\ path[1] = HomeDir /\ path[2] = ".cache"
    THEN <<CacheLinkTarget>> \o SubSeq(path, 3, Len(path))
    ELSE path

\* str(path): the components joined by "/".
RECURSIVE PathStr(_)
PathStr(path) ==
    IF Len(path) = 1 THEN path[1]
    ELSE PathStr(SubSeq(path, 1, Len(path) - 1)) \o "/" \o path[Len(path)]

\* Response.raise_for_status(): raises HTTPError for 4xx and 5xx.
RaisesForStatus(code) == 400 <= code /\ code < 600

\* os.environ.get('XDG_CURRENT_DESKTOP', '').upper()
DesktopVar(xdg) == Upper(Chars(IF xdg = "unset" THEN "" ELSE xdg))

\* get_desktop_environment without the .upper() of the variable
get_desktop_environment_CaseSensitive(xdg, onPath) ==
    LET desktop == Chars(IF xdg = "unset" THEN "" ELSE xdg) IN
    IF desktop # <<>> /\ Contains(desktop, Chars("CINNAMON")) THEN "CINNAMON"
    ELSE IF desktop # <<>> /\ Contains(desktop, Chars("MATE")) THEN "MATE"
    ELSE IF desktop # <<>> /\ Contains(desktop, Chars("XFCE")) THEN "XFCE"
    ELSE IF "cinnamon" \in onPath THEN "CINNAMON"
    ELSE IF "mate-session" \in onPath THEN "MATE"
    ELSE IF "xfce4-session" \in onPath THEN "XFCE"
    ELSE "None"

\* get_desktop_environment(); "None" is Python's None.
get_desktop_environment(xdg, onPath) ==
    LET desktop == DesktopVar(xdg) IN
    IF desktop # <<>> /\ Contains(desktop, Chars("CINNAMON")) THEN "CINNAMON"
    ELSE IF desktop # <<>> /\ Contains(desktop, Chars("MATE")) THEN "MATE"
    ELSE IF desktop # <<>> /\ Contains(desktop, Chars("XFCE")) THEN "XFCE"
    ELSE IF "cinnamon" \in onPath THEN "CINNAMON"
    ELSE IF "mate-session" \in onPath THEN "MATE"
    ELSE IF "xfce4-session" \in onPath THEN "XFCE"
    ELSE "None"

\* The command of the CINNAMON branch.
CinnamonCommand(abs_image_path) ==
    <<"gsettings", "set", "org.cinnamon.desktop.background", "picture-uri",
      "file://" \o abs_image_path>>

\* the MATE branch given the URI form of the CINNAMON branch
MateCommand_WithScheme(abs_image_path) ==
    <<"gsettings", "set", "org.mate.background", "picture-filename",
      "file://" \o abs_image_path>>

\* The command of the MATE branch.
MateCommand(abs_image_path) ==
    <<"gsettings", "set", "org.mate.background", "picture-filename", abs_image_path>>

\* The discovery command of the XFCE branch.
XfceListCommand == <<"xfconf-query", "-c", "xfce4-desktop", "-l">>

\* The set command of the XFCE branch for one property.
XfceSetCommand(prop, abs_image_path) ==
    <<"xfconf-query", "-c", "xfce4-desktop", "-p", prop, "-s", abs_image_path>>

\* the filter with its second alternative dropped
IsImageProp_OnlyLastImage(p) == Contains(Chars(p), Chars("last-image"))

\* The filter of the list comprehension that selects the image properties.
IsImageProp(p) ==
    \/ Contains(Chars(p), Chars("last-image"))
    \/ Contains(Chars(p), Chars("image-path"))

\* image_props = [p for p in props if ...]
ImageProps(listing) == SelectSeq(listing, IsImageProp)

\* run_command without check=True: a non-zero exit status goes unnoticed
RunCommandResult_NoCheck(outcome) ==
    IF outcome \in {"ok", "CalledProcessError"} THEN "True"
    ELSE IF Caught(outcome, RunCommandExcepts) THEN "False"
    ELSE "raise"

\* run_command's return value for what subprocess.run did: "True", "False",
\* or "raise" when the exception is not handled.
RunCommandResult(outcome) ==
    IF outcome = "ok" THEN "True"
    ELSE IF Caught(outcome, RunCommandExcepts) THEN "False"
    ELSE "raise"

\* main calling the setter whatever download_image returned
AfterDownload_Always(result) == "main_sleep"

\* Where main goes when download_image returned: the pause and the setter
\* after success, the failure message otherwise.
AfterDownload(result) == IF result = "True" THEN "main_sleep" ELSE "main_dlfail"

\* the guard of set_linux_background without the is_file() test
FileMissing_NoTest(exists) == FALSE

\* `if not image_path.is_file()`
FileMissing(exists) == ~exists

\* f.write(chunk) on the open cache file.
WriteChunk(content, chunk) == Append(content, chunk)

\* The lines main prints.
StartBanner == "--- NOAA GOES-19 Background Setter (Linux) ---"
EndBanner == "--- Script finished ---"
NotSetLine == "!! Background could not be set automatically."
NotUpdatedLine == "!! Background not updated due to download failure."

\* Lines main prints after set_linux_background returned.
AfterSetLines(result) ==
    IF result = "False" THEN <<NotSetLine, EndBanner>> ELSE <<EndBanner>>

\* ------------------------------------------------------------------ state
VARIABLES
    pc,           \* position of the run in the script
    run,          \* number of the current run
    cacheLinked,  \* file system: ~/.cache is a symbolic link
    dirExists,    \* file system: the parent directory of the cache file exists
    fileExists,   \* file system: the cache file exists
    fileContent,  \* file system: the chunks in the cache file
    lastGood,     \* history: body of the last download that returned True
    filePre,      \* history: the cache file when download_image was called
    status,       \* download_image: status code of the response, 0 before it
    body,         \* download_image: chunks iter_content delivers
    written,      \* download_image: chunks written so far
    dlResult,     \* return value of download_image, "pending" before it
    xdgSeen,      \* get_desktop_environment: XDG_CURRENT_DESKTOP as read
    pathSeen,     \* get_desktop_environment: executables on the search path
    de,           \* set_linux_background: de
    abs_image_path, \* set_linux_background: abs_image_path
    command,      \* set_linux_background: command of the gsettings branches
    props,        \* set_linux_background: props
    image_props,  \* set_linux_background: image_props
    todo,         \* set_linux_background: position of the loop in image_props
    cmds,         \* external commands executed in this run, in order
    lastOutcome,  \* what subprocess.run did for the last command
    setResult,    \* return value of set_linux_background, "pending" before it
    out,          \* lines main printed in this run
    steps         \* steps of this run, in order

fsVars == <<cacheLinked, dirExists, fileExists, fileContent>>
dlVars == <<filePre, status, body, written>>
deVars == <<xdgSeen, pathSeen, de>>
setVars == <<abs_image_path, command, props, image_props, todo>>
vars == <<pc, run, fsVars, lastGood, dlVars, dlResult, deVars, setVars, cmds,
          lastOutcome, setResult, out, steps>>

NoFile == [exists |-> FALSE, content |-> <<>>]

Init ==
    /\ pc = "main_start"
    /\ run = 1
    /\ cacheLinked \in BOOLEAN
    /\ dirExists \in BOOLEAN
    /\ fileExists = FALSE
    /\ fileContent = <<>>
    /\ lastGood = [valid |-> FALSE, body |-> <<>>]
    /\ filePre = NoFile
    /\ status = 0
    /\ body = <<>>
    /\ written = 0
    /\ dlResult = "pending"
    /\ xdgSeen = "unset"
    /\ pathSeen = {}
    /\ de = "None"
    /\ abs_image_path = ""
    /\ command = <<>>
    /\ props = <<>>
    /\ image_props = <<>>
    /\ todo = 0
    /\ cmds = <<>>
    /\ lastOutcome = "none"
    /\ setResult = "pending"
    /\ out = <<>>
    /\ steps = <<>>

\* ------------------------------------------------------------------- main
\* print of the start banner, then the call of download_image.
MainStart ==
    /\ pc = "main_start"
    /\ out' = Append(out, StartBanner)
    /\ pc' = "dl_mkdir"
    /\ UNCHANGED <<run, fsVars, lastGood, dlVars, dlResult, deVars, setVars, cmds,
                   lastOutcome, setResult, steps>>

\* ---------------------------------------------------------- download_image
\* An exception raised in the try block of download_image: handled by an
\* except clause (return False) or propagated to the top level.
DlRaise(exc) ==
    IF Caught(exc, DownloadExcepts)
    THEN /\ dlResult' = "False"
         /\ pc' = AfterDownload("False")
    ELSE /\ dlResult' = dlResult
         /\ pc' = "crashed"

\* save_path.parent.mkdir(parents=True, exist_ok=True)
DlMkdir ==
    /\ pc = "dl_mkdir"
    /\ filePre' = [exists |-> fileExists, content |-> fileContent]
    /\ steps' = Append(steps, "mkdir")
    /\ \/ /\ dirExists' = TRUE
          /\ pc' = "dl_get"
          /\ UNCHANGED dlResult
       \/ /\ ~dirExists
          /\ dirExists' = dirExists
          /\ DlRaise("PermissionError")
    /\ UNCHANGED <<run, cacheLinked, fileExists, fileContent, lastGood, status, body,
                   written, deVars, setVars, cmds, lastOutcome, setResult, out>>

\* requests.get(url, stream=True, timeout=30) and response.raise_for_status()
DlGet ==
    /\ pc = "dl_get"
    /\ steps' = Append(steps, "get")
    /\ \/ /\ DlRaise("ConnectionError")
          /\ UNCHANGED <<status, body>>
       \/ \E code \in Statuses, b \in Bodies :
            /\ status' = code
            /\ body' = b
            /\ IF RaisesForStatus(code)
               THEN DlRaise("HTTPError")
               ELSE pc' = "dl_open" /\ UNCHANGED dlResult
    /\ UNCHANGED <<run, fsVars, lastGood, filePre, written, deVars, setVars, cmds,
                   lastOutcome, setResult, out>>

\* open(save_path, 'wb'): creates the file or truncates it
DlOpen ==
    /\ pc = "dl_open"
    /\ steps' = Append(steps, "open")
    /\ \/ /\ fileExists' = TRUE
          /\ fileContent' = <<>>
          /\ pc' = "dl_write"
          /\ UNCHANGED dlResult
       \/ /\ DlRaise("PermissionError")
          /\ UNCHANGED <<fileExists, fileContent>>
    /\ UNCHANGED <<run, cacheLinked, dirExists, lastGood, dlVars, deVars, setVars,
                   cmds, lastOutcome, setResult, out>>

\* one turn of `for chunk in response.iter_content(...): f.write(chunk)`
DlWrite ==
    /\ pc = "dl_write"
    /\ written < Len(body)
    /\ \/ /\ fileContent' = WriteChunk(fileContent, body[written + 1])
          /\ written' = written + 1
          /\ UNCHANGED <<pc, dlResult>>
       \/ \E exc \in {"ChunkedEncodingError", "OSError", "MemoryError"} :
            /\ DlRaise(exc)
            /\ UNCHANGED <<fileContent, written>>
    /\ UNCHANGED <<run, cacheLinked, dirExists, fileExists, lastGood, filePre, status,
                   body, deVars, setVars, cmds, lastOutcome, setResult, out, steps>>

\* the body is exhausted: the file is closed and download_image returns True
DlReturnTrue ==
    /\ pc = "dl_write"
    /\ written = Len(body)
    /\ dlResult' = "True"
    /\ lastGood' = [valid |-> TRUE, body |-> body]
    /\ pc' = AfterDownload("True")
    /\ UNCHANGED <<run, fsVars, dlVars, deVars, setVars, cmds, lastOutcome,
                   setResult, out, steps>>

\* main's else branch: the failure line and the end banner
MainDlFail ==
    /\ pc = "main_dlfail"
    /\ out' = out \o <<NotUpdatedLine, EndBanner>>
    /\ pc' = "done"
    /\ filePre' = NoFile /\ status' = 0 /\ body' = <<>> /\ written' = 0
    /\ UNCHANGED <<run, fsVars, lastGood, dlResult, deVars, setVars, cmds,
                   lastOutcome, setResult, steps>>

\* time.sleep(1), then the call of set_linux_background
MainSleep ==
    /\ pc = "main_sleep"
    /\ steps' = Append(steps, "sleep")
    /\ pc' = "set_check"
    /\ filePre' = NoFile /\ status' = 0 /\ body' = <<>> /\ written' = 0
    /\ UNCHANGED <<run, fsVars, lastGood, dlResult, deVars, setVars, cmds,
                   lastOutcome, setResult, out>>

\* During the pause another process may clear the cache directory's file.
CacheCleared ==
    /\ pc = "main_sleep"
    /\ fileExists
    /\ fileExists' = FALSE
    /\ fileContent' = <<>>
    /\ UNCHANGED <<pc, run, cacheLinked, dirExists, lastGood, dlVars, dlResult, deVars,
                   setVars, cmds, lastOutcome, setResult, out, steps>>

\* ---------------------------------------------------- set_linux_background
\* One executed external command: its argument list, the function that
\* executed it, and whether its exit status was 0.
Cmd(argv, via, outcome) == [argv |-> argv, via |-> via, ok |-> (outcome = "ok")]

\* abs_image_path = str(image_path.resolve()) and the is_file() check
SetCheck ==
    /\ pc = "set_check"
    /\ steps' = Append(steps, "check")
    /\ abs_image_path' = PathStr(Resolve(IMAGE_PATH, cacheLinked))
    /\ IF FileMissing(fileExists)
       THEN setResult' = "False" /\ pc' = "main_after_set"
       ELSE setResult' = setResult /\ pc' = "set_detect"
    /\ UNCHANGED <<run, fsVars, lastGood, dlVars, dlResult, deVars, command, props,
                   image_props, todo, cmds, lastOutcome, out>>

\* de = get_desktop_environment()
SetDetect ==
    /\ pc = "set_detect"
    /\ steps' = Append(steps, "detect")
    /\ \E xdg \in XdgValues, onPath \in SUBSET SessionBinaries :
         /\ xdgSeen' = xdg
         /\ pathSeen' = onPath
         /\ de' = get_desktop_environment(xdg, onPath)
    /\ pc' = "set_dispatch"
    /\ UNCHANGED <<run, fsVars, lastGood, dlVars, dlResult, setVars, cmds, lastOutcome,
                   setResult, out>>

\* the if/elif chain on de
SetDispatch ==
    /\ pc = "set_dispatch"
    /\ xdgSeen' = "unset"
    /\ pathSeen' = {}
    /\ CASE de = "CINNAMON" ->
              /\ command' = CinnamonCommand(abs_image_path)
              /\ pc' = "set_run"
              /\ UNCHANGED setResult
         [] de = "MATE" ->
              /\ command' = MateCommand(abs_image_path)
              /\ pc' = "set_run"
              /\ UNCHANGED setResult
         [] de = "XFCE" ->
              /\ pc' = "xfce_list"
              /\ UNCHANGED <<command, setResult>>
         [] OTHER ->
              /\ setResult' = "False"
              /\ pc' = "main_after_set"
              /\ UNCHANGED command
    /\ UNCHANGED <<run, fsVars, lastGood, dlVars, dlResult, de, abs_image_path, props,
                   image_props, todo, cmds, lastOutcome, out, steps>>

\* `if command: return run_command(command)` of the gsettings branches
SetRun ==
    /\ pc = "set_run"
    /\ IF command = <<>>
       THEN /\ setResult' = "False"
            /\ pc' = "main_after_set"
            /\ UNCHANGED <<cmds, lastOutcome>>
       ELSE \E o \in RunOutcomes :
            /\ cmds' = Append(cmds, Cmd(command, "run_command", o))
            /\ lastOutcome' = o
            /\ IF RunCommandResult(o) = "raise"
               THEN pc' = "crashed" /\ UNCHANGED setResult
               ELSE setResult' = RunCommandResult(o) /\ pc' = "main_after_set"
    /\ UNCHANGED <<run, fsVars, lastGood, dlVars, dlResult, deVars, setVars, out, steps>>

\* An exception raised in the try block of the XFCE branch.
XfceRaise(exc) ==
    IF Caught(exc, XfceExcepts)
    THEN setResult' = "False" /\ pc' = "main_after_set"
    ELSE setResult' = setResult /\ pc' = "crashed"

\* the discovery: subprocess.run(['xfconf-query', ..., '-l'], check=True),
\* the filter, and the return when nothing matches
XfceList ==
    /\ pc = "xfce_list"
    /\ steps' = Append(steps, "list")
    /\ \/ \E exc \in RunOutcomes \ {"ok"} :
            /\ cmds' = Append(cmds, Cmd(XfceListCommand, "subprocess.run", exc))
            /\ lastOutcome' = exc
            /\ XfceRaise(exc)
            /\ UNCHANGED <<props, image_props, todo>>
       \/ \E l \in Listings :
            /\ cmds' = Append(cmds, Cmd(XfceListCommand, "subprocess.run", "ok"))
            /\ lastOutcome' = "ok"
            /\ props' = l
            /\ image_props' = ImageProps(l)
            /\ IF ImageProps(l) = <<>>
               THEN setResult' = "False" /\ pc' = "main_after_set" /\ UNCHANGED todo
               ELSE setResult' = setResult /\ pc' = "xfce_set" /\ todo' = 1
    /\ UNCHANGED <<run, fsVars, lastGood, dlVars, dlResult, deVars, abs_image_path,
                   command, out>>

\* one turn of `for prop in image_props: run_command(command)`
XfceSet ==
    /\ pc = "xfce_set"
    /\ todo <= Len(image_props)
    /\ \E o \in RunOutcomes :
         /\ cmds' = Append(cmds, Cmd(XfceSetCommand(image_props[todo], abs_image_path),
                                     "run_command", o))
         /\ lastOutcome' = o
         /\ IF RunCommandResult(o) = "raise"
            THEN XfceRaise(o) /\ UNCHANGED todo
            ELSE todo' = todo + 1 /\ UNCHANGED <<pc, setResult>>
    /\ UNCHANGED <<run, fsVars, lastGood, dlVars, dlResult, deVars, abs_image_path,
                   command, props, image_props, out, steps>>

\* the loop is over: `return True`
XfceReturnTrue ==
    /\ pc = "xfce_set"
    /\ todo > Len(image_props)
    /\ setResult' = "True"
    /\ pc' = "main_after_set"
    /\ UNCHANGED <<run, fsVars, lastGood, dlVars, dlResult, deVars, setVars, cmds,
                   lastOutcome, out, steps>>

\* main after set_linux_background returned: the failure line, the end banner
MainAfterSet ==
    /\ pc = "main_after_set"
    /\ out' = out \o AfterSetLines(setResult)
    /\ pc' = "done"
    /\ UNCHANGED <<run, fsVars, lastGood, dlVars, dlResult, deVars, setVars, cmds,
                   lastOutcome, setResult, steps>>

\* The script is started again; the file system is all it keeps.
NewRun ==
    /\ pc = "done"
    /\ run < MaxRuns
    /\ run' = run + 1
    /\ pc' = "main_start"
    /\ dlResult' = "pending"
    /\ xdgSeen' = "unset" /\ pathSeen' = {} /\ de' = "None"
    /\ abs_image_path' = "" /\ command' = <<>> /\ props' = <<>>
    /\ image_props' = <<>> /\ todo' = 0
    /\ cmds' = <<>> /\ lastOutcome' = "none" /\ setResult' = "pending"
    /\ out' = <<>> /\ steps' = <<>>
    /\ UNCHANGED <<fsVars, lastGood, dlVars>>

Next ==
    \/ MainStart
    \/ DlMkdir
    \/ DlGet
    \/ DlOpen
    \/ DlWrite
    \/ DlReturnTrue
    \/ MainDlFail
    \/ MainSleep
    \/ CacheCleared
    \/ SetCheck
    \/ SetDetect
    \/ SetDispatch
    \/ SetRun
    \/ XfceList
    \/ XfceSet
    \/ XfceReturnTrue
    \/ MainAfterSet
    \/ NewRun

Spec == Init /\ [][Next]_vars

\* Every call the script makes returns or raises: the HTTP request has a
\* timeout and the external commands end.
FairSpec == Spec /\ WF_vars(Next)

TypeOK ==
    /\ pc \in {"main_start", "dl_mkdir", "dl_get", "dl_open", "dl_write", "main_dlfail",
               "main_sleep", "set_check", "set_detect", "set_dispatch", "set_run",
               "xfce_list", "xfce_set", "main_after_set", "done", "crashed"}
    /\ run \in 1..MaxRuns
    /\ dlResult \in {"pending", "True", "False"}
    /\ setResult \in {"pending", "True", "False"}
    /\ de \in {"CINNAMON", "MATE", "XFCE", "None"}
    /\ written \in 0..Len(body)

\* ================================================================= claims
Returned(res) == res # "pending"
SetterReturned == pc \in {"main_after_set", "done"} /\ Returned(setResult)
Occurs(step) == \E i \in 1..Len(steps) : steps[i] = step
Count(step) == Cardinality({i \in 1..Len(steps) : steps[i] = step})
CacheFile == [exists |-> fileExists, content |-> fileContent]

\* C1: after any sequence of runs the cache file, if it exists, holds exactly
\* the body of the most recent run whose download_image returned True.
C1_CacheIsLastSuccessfulBody ==
    (pc = "done" /\ fileExists) => (lastGood.valid /\ fileContent = lastGood.body)

\* C2: when the response has a non-2xx status, download_image returns False,
\* the cache file is as it was before the call, and the parent directory
\* exists.
C2_Non2xxFailsAndKeepsCache ==
    (Returned(dlResult) /\ status # 0 /\ ~(200 <= status /\ status < 300))
        => (dlResult = "False" /\ CacheFile = filePre /\ dirExists)

\* What the code does guarantee around C1 and C2: a download that returned
\* True left exactly the response body in the file, and a 4xx or 5xx status
\* returns False with the cache file untouched and the directory present.
DownloadSuccessWritesBody ==
    (pc = "main_sleep" /\ fileExists) => (dlResult = "True" /\ fileContent = body)
ErrorStatusFailsAndKeepsCache ==
    (Returned(dlResult) /\ 400 <= status /\ status < 600)
        => (dlResult = "False" /\ CacheFile = filePre /\ dirExists)

\* C3: when the cache file does not exist at the call of
\* set_linux_background, it returns False and neither the desktop detection
\* nor any external command happens in that call.
C3_MissingFileFailsBeforeDetection ==
    (Occurs("check") /\ ~fileExists)
        => /\ SetterReturned
           /\ setResult = "False"
           /\ ~Occurs("detect")
           /\ ~Occurs("list")
           /\ cmds = <<>>

C3_Witness ==
    /\ pc = "main_after_set"
    /\ Occurs("check")
    /\ ~fileExists
    /\ setResult = "False"

\* The property names of PropLines that contain 'last-image' or 'image-path'.
ImageNames == {"/m0/last-image", "/m1/last-image", "/m0/image-path"}
ListedImageNames == {props[i] : i \in 1..Len(props)} \cap ImageNames
SetCmdsFor(p) ==
    {i \in 1..Len(cmds) :
        /\ cmds[i].via = "run_command"
        /\ Len(cmds[i].argv) = 7
        /\ SubSeq(cmds[i].argv, 1, 4) = <<"xfconf-query", "-c", "xfce4-desktop", "-p">>
        /\ cmds[i].argv[5] = p}
XfceReturned == SetterReturned /\ de = "XFCE" /\ Occurs("list")
DiscoveryOk == cmds # <<>> /\ cmds[1].argv = XfceListCommand /\ cmds[1].ok

\* C4: in the XFCE branch, a listing without a matching property makes the
\* setter return False with no set command issued; otherwise a set command
\* is issued for every matching property, each exactly once, whether or not
\* earlier set commands failed.
C4_XfceSetsEveryImageProperty ==
    (XfceReturned /\ DiscoveryOk)
        => /\ ListedImageNames = {} => (setResult = "False" /\ Len(cmds) = 1)
           /\ \A p \in ListedImageNames : Cardinality(SetCmdsFor(p)) = 1
           /\ \A p \in PropLines \ ListedImageNames : SetCmdsFor(p) = {}
           /\ Len(cmds) = 1 + Cardinality(ListedImageNames)

C4_Witness ==
    /\ XfceReturned
    /\ DiscoveryOk
    /\ Cardinality(ListedImageNames) = 2
    /\ Len(cmds) = 3
    /\ ~cmds[2].ok
    /\ cmds[3].via = "run_command"

\* c and d are the same letter up to case.
SameLetter(c, d) ==
    \/ c = d
    \/ \E i \in 1..Len(LowerLetters) :
          {c, d} = {LowerLetters[i], UpperLetters[i]}
OccursIgnoringCase(name, value) ==
    \E i \in 0..(Len(value) - Len(name)) :
        \A j \in 1..Len(name) : SameLetter(value[i + j], name[j])
VarNames(xdg) ==
    LET value == IF xdg = "unset" THEN <<>> ELSE Chars(xdg) IN
    {n \in {"CINNAMON", "MATE", "XFCE"} : OccursIgnoringCase(Chars(n), value)}
PathNames(onPath) ==
    {n \in {"CINNAMON", "MATE", "XFCE"} :
        \/ n = "CINNAMON" /\ "cinnamon" \in onPath
        \/ n = "MATE" /\ "mate-session" \in onPath
        \/ n = "XFCE" /\ "xfce4-session" \in onPath}
FirstOf(names) ==
    IF "CINNAMON" \in names THEN "CINNAMON"
    ELSE IF "MATE" \in names THEN "MATE"
    ELSE IF "XFCE" \in names THEN "XFCE"
    ELSE "None"
ExpectedDesktop(xdg, onPath) ==
    IF VarNames(xdg) # {} THEN FirstOf(VarNames(xdg)) ELSE FirstOf(PathNames(onPath))

\* C5: get_desktop_environment returns the first of CINNAMON, MATE, XFCE
\* that occurs case-insensitively in XDG_CURRENT_DESKTOP; otherwise the first
\* of them whose executable is on the path; otherwise unknown (None).
C5_DetectionPriority ==
    pc = "set_dispatch" => de = ExpectedDesktop(xdgSeen, pathSeen)

C5_Witness ==
    /\ pc = "set_dispatch"
    /\ xdgSeen = "X-Cinnamon"
    /\ pathSeen = {"mate-session"}
    /\ de = "CINNAMON"

\* The absolute path of the cache file.
ExpectedAbsPath ==
    IF cacheLinked
    THEN "/mnt/data/cache/noaa_wallpaper/noaa_latest_background.jpg"
    ELSE "/home/user/.cache/noaa_wallpaper/noaa_latest_background.jpg"
GsettingsReturned == SetterReturned /\ Occurs("detect") /\ de \in {"CINNAMON", "MATE"}

\* C6: with the cache file present, the one command issued for CINNAMON is
\* gsettings set org.cinnamon.desktop.background picture-uri file://<abs path>
\* and the one issued for MATE is
\* gsettings set org.mate.background picture-filename <abs path>.
C6_GsettingsCommands ==
    GsettingsReturned
        => /\ Len(cmds) = 1
           /\ de = "CINNAMON" =>
                cmds[1].argv = <<"gsettings", "set", "org.cinnamon.desktop.background",
                                 "picture-uri", "file://" \o ExpectedAbsPath>>
           /\ de = "MATE" =>
                cmds[1].argv = <<"gsettings", "set", "org.mate.background",
                                 "picture-filename", ExpectedAbsPath>>

C6_Witness ==
    /\ GsettingsReturned
    /\ de = "MATE"
    /\ cacheLinked
    /\ Len(cmds) = 1

BannersFirstAndLast ==
    /\ Len(out) >= 2
    /\ out[1] = StartBanner
    /\ out[Len(out)] = EndBanner
    /\ \A i \in 2..Len(out) : out[i] # StartBanner
    /\ \A i \in 1..(Len(out) - 1) : out[i] # EndBanner

\* C7: every run ends normally with the start banner printed first and the
\* end banner printed last; no failure of the download, the detection or an
\* external command reaches the top level.
C7_RunsEndWithBanners ==
    /\ [](pc # "crashed")
    /\ [](pc = "done" => BannersFirstAndLast)
    /\ [](pc # "main_start" => (out # <<>> /\ out[1] = StartBanner))
    /\ ((pc # "done") ~> (pc = "done"))

C7_Witness ==
    /\ pc = "done"
    /\ BannersFirstAndLast
    /\ setResult = "False"
    /\ lastOutcome = "PermissionError"

SetterSteps == {"check", "detect", "list"}

C9_GsettingsResultIsRunnerResult ==
    GsettingsReturned
        => /\ Len(cmds) = 1
           /\ cmds[1].via = "run_command"
           /\ lastOutcome = "ok" => setResult = "True"
           /\ lastOutcome \in {"FileNotFoundError", "CalledProcessError",
                               "PermissionError"} => setResult = "False"
           /\ cmds[1].ok <=> (setResult = "True")

C9_Witness ==
    /\ GsettingsReturned
    /\ de = "CINNAMON"
    /\ lastOutcome = "CalledProcessError"
    /\ setResult = "False"

\* C10: in the XFCE branch the setter returns True once discovery succeeded
\* and listed a matching property, whatever the set commands did; it returns
\* False only when discovery failed or listed no matching property.
C10_XfceSuccessIgnoresSetResults ==
    XfceReturned
        => ((setResult = "True") <=> (DiscoveryOk /\ ListedImageNames # {}))

C10_Witness ==
    /\ XfceReturned
    /\ setResult = "True"
    /\ Len(cmds) = 3
    /\ \A i \in 2..3 : ~cmds[i].ok

====
